---------------------------- MODULE Spec2Model ----------------------------
(***************************************************************************)
(* A model of journal_app.py: the record store kept in the session state,  *)
(* the regex based pattern extractors, the tool dispatcher, the retrying   *)
(* delegate client and the router process_message, run by the script that  *)
(* renders the sidebar and the chat.                                       *)
(*                                                                         *)
(* Messages are strings and the regular expressions of the source are      *)
(* evaluated on their characters.  The em dash U+2014 of the bulk pattern  *)
(* is written EmDash, an ASCII character no message uses otherwise.  The   *)
(* timestamp of an entry (datetime.now()) is not modelled: an entry holds  *)
(* id, content, category and tags, and a rendered line ends after the      *)
(* content.  The emoji that starts a count summary or an error reply is    *)
(* left out of the reply strings.                                          *)
(***************************************************************************)
EXTENDS Integers, Sequences, FiniteSets, TLC

(***************************************************************************)
(* Characters and strings (Python str methods used by the source).         *)
(***************************************************************************)
EmDash == "~"

UpperAlpha == "ABCDEFGHIJKLMNOPQRSTUVWXYZ"

LowerAlpha == "abcdefghijklmnopqrstuvwxyz"

Digits == "0123456789"

At(s, i) == SubSeq(s, i, i)

From(s, i) == SubSeq(s, i, Len(s))

CharsOf(alphabet) == {At(alphabet, i) : i \in 1..Len(alphabet)}

UpperChars == CharsOf(UpperAlpha)

WordChars == CharsOf(UpperAlpha) \cup CharsOf(LowerAlpha) \cup CharsOf(Digits) \cup {"_"}

StampChars == CharsOf(Digits) \cup {"-", ":", " ", "\n", "\t"}

\* the lower-case letter of each upper-case letter
LowerOf == [c \in UpperChars |-> At(LowerAlpha, CHOOSE i \in 1..Len(UpperAlpha) : At(UpperAlpha, i) = c)]

\* \s of the re module, for the characters the messages use
IsSpace(c) == c \in {" ", "\n", "\t"}

\* \w of the re module
IsWordChar(c) == c \in WordChars

\* [\d\-\:\s] of the bulk pattern
IsStampChar(c) == c \in StampChars

LowerChar(c) == IF c \in UpperChars THEN LowerOf[c] ELSE c

RECURSIVE Lower(_)
\* str.lower()
Lower(s) == IF s = "" THEN "" ELSE LowerChar(At(s, 1)) \o Lower(From(s, 2))

RECURSIVE LStrip(_)
LStrip(s) == IF s /= "" /\ IsSpace(At(s, 1)) THEN LStrip(From(s, 2)) ELSE s

RECURSIVE RStrip(_)
RStrip(s) == IF s /= "" /\ IsSpace(At(s, Len(s))) THEN RStrip(SubSeq(s, 1, Len(s) - 1)) ELSE s

\* str.strip()
Strip(s) == RStrip(LStrip(s))

\* the literal p occurs in s at position i
MatchAt(s, p, i) == i >= 1 /\ i + Len(p) - 1 <= Len(s) /\ SubSeq(s, i, i + Len(p) - 1) = p

\* re.search of a literal / the `in` operator on strings
Contains(s, p) == \E i \in 1..Len(s) : MatchAt(s, p, i)

\* re.search(r"(p1|p2|...)", s)
ContainsAny(s, ps) == \E p \in ps : Contains(s, p)

\* re.search(r"(a1|a2|...).*(b1|b2|...)", s): '.' matches no newline
ContainsThen(s, as, bs) ==
    \E a \in as, b \in bs : \E i \in 1..Len(s), j \in 1..Len(s) :
        /\ MatchAt(s, a, i)
        /\ j >= i + Len(a)
        /\ MatchAt(s, b, j)
        /\ \A k \in (i + Len(a))..(j - 1) : At(s, k) /= "\n"

\* \b at the gap after the first n characters of s
Boundary(s, n) ==
    LET before == n >= 1 /\ IsWordChar(At(s, n))
        after == n < Len(s) /\ IsWordChar(At(s, n + 1))
    IN before /= after

\* re.search(r"\b(p1|p2|...)\b", s)
ContainsWord(s, ps) ==
    \E p \in ps : \E i \in 1..Len(s) :
        MatchAt(s, p, i) /\ Boundary(s, i - 1) /\ Boundary(s, i + Len(p) - 1)

\* the first position >= i of s whose character is a newline, or Len(s)+1
RECURSIVE LineEnd(_, _)
LineEnd(s, i) == IF i > Len(s) \/ At(s, i) = "\n" THEN i ELSE LineEnd(s, i + 1)

(***************************************************************************)
(* Pattern extractors.                                                     *)
(***************************************************************************)
\* the last index of the run of \w characters that starts at i (i-1: none)
RECURSIVE WordRunEnd(_, _)
WordRunEnd(s, i) == IF i <= Len(s) /\ IsWordChar(At(s, i)) THEN WordRunEnd(s, i + 1) ELSE i - 1

\* the last index of the run of \s characters that starts at i (i-1: none)
RECURSIVE SpaceRunEnd(_, _)
SpaceRunEnd(s, i) == IF i <= Len(s) /\ IsSpace(At(s, i)) THEN SpaceRunEnd(s, i + 1) ELSE i - 1

\* the last index of the run of [\d\-\:\s] characters that starts at i (i-1: none)
RECURSIVE StampRunEnd(_, _)
StampRunEnd(s, i) == IF i <= Len(s) /\ IsStampChar(At(s, i)) THEN StampRunEnd(s, i + 1) ELSE i - 1

SetMax(S) == CHOOSE x \in S : \A y \in S : y <= x

SetMin(S) == CHOOSE x \in S : \A y \in S : x <= y

\* one match of (\w+)\s+EmDash\s+[\d\-\:\s]+(.+) that starts at i.  \s+ and the
\* class are greedy and give characters back until (.+) finds a character that
\* is no newline: the two cover the stamp run up to the last index m with one
\* whitespace and one class character at least and such a character after it.
BulkMatch(s, i) ==
    LET e == WordRunEnd(s, i)
        d == SpaceRunEnd(s, e + 1) + 1
        r == StampRunEnd(s, d + 1)
        ms == {m \in (d + 2)..r : m + 1 <= Len(s) /\ At(s, m + 1) /= "\n"}
    IN  IF /\ e >= i
           /\ d >= e + 2
           /\ MatchAt(s, EmDash, d)
           /\ d + 1 <= Len(s)
           /\ IsSpace(At(s, d + 1))
           /\ ms /= {}
        THEN LET m == SetMax(ms)
                 le == LineEnd(s, m + 1)
             IN  [ok |-> TRUE, category |-> SubSeq(s, i, e),
                  content |-> SubSeq(s, m + 1, le - 1), end |-> le - 1]
        ELSE [ok |-> FALSE, category |-> "", content |-> "", end |-> i]

\* re.findall from position i on: leftmost match first, the next after its end
RECURSIVE BulkFrom(_, _)
BulkFrom(s, i) ==
    IF i > Len(s) THEN <<>>
    ELSE LET m == BulkMatch(s, i)
         IN  IF m.ok
             THEN <<[category |-> Strip(m.category), content |-> Strip(m.content), tags |-> <<>>]>>
                  \o BulkFrom(s, m.end + 1)
             ELSE BulkFrom(s, i + 1)

parse_bulk_entries(text) == BulkFrom(text, 1)

\* the empty match of the split pattern after the first p characters:
\* (?:(?<=\.)|(?<=\n)|(?<=and ))(?=\s*add ), IGNORECASE
\* (s is the message in lower case)
SplitPoint(s, p) ==
    /\ \/ At(s, p) = "."
       \/ At(s, p) = "\n"
       \/ MatchAt(s, "and ", p - 3)
    /\ MatchAt(s, "add ", SpaceRunEnd(s, p + 1) + 1)

\* re.split on empty matches: the pieces between the split points after `from`
RECURSIVE SplitFrom(_, _, _, _)
SplitFrom(s, low, from, p) ==
    IF p >= Len(s) THEN <<SubSeq(s, from + 1, Len(s))>>
    ELSE IF SplitPoint(low, p) THEN <<SubSeq(s, from + 1, p)>> \o SplitFrom(s, low, p, p + 1)
    ELSE SplitFrom(s, low, from, p + 1)

SplitActions(user_message) == SplitFrom(user_message, Lower(user_message), 0, 1)

ShoppingPhrases == {"to shopping list", "to buy", "list to buy"}

ObjectVerbs == <<"buy", "for", "to buy", "list to buy">>

\* the verb alternative tried first that matches at i with whitespace after it
\* (s is the action in lower case)
VerbAt(s, i) ==
    LET ok == {k \in 1..Len(ObjectVerbs) :
                 /\ MatchAt(s, ObjectVerbs[k], i)
                 /\ i + Len(ObjectVerbs[k]) <= Len(s)
                 /\ IsSpace(At(s, i + Len(ObjectVerbs[k])))}
    IN  IF ok = {} THEN 0 ELSE SetMin(ok)

\* re.findall(r"(?:buy|for|to buy|list to buy)\s+(.*)", action, IGNORECASE):
\* <<>> without a match, else <<match[0]>>
ShoppingObject(action) ==
    LET low == Lower(action)
        starts == {i \in 1..Len(action) : VerbAt(low, i) /= 0}
    IN  IF starts = {} THEN <<>>
        ELSE LET i == SetMin(starts)
                 v == ObjectVerbs[VerbAt(low, i)]
                 b == SpaceRunEnd(action, i + Len(v)) + 1
             IN  <<SubSeq(action, b, LineEnd(action, b) - 1)>>

ReminderWords == {"remind", "appointment", "meeting", "schedule", "event"}

QuestionWords == {"do", "does", "did", "any", "what", "show", "list", "display", "have", "are there"}

AskWords == {"what", "show", "list", "display"}

AddWords == {"add", "note"}

\* line 164
ShoppingRule(text) ==
    ContainsThen(text, AskWords, {"shopping", "buy", "grocer", "item"}) /\ ~ContainsAny(text, AddWords)

\* line 168
ReminderRule(text) ==
    ContainsThen(text, AskWords, {"remind", "task", "todo", "to-do", "event"}) /\ ~ContainsAny(text, AddWords)

\* line 172
NoteRule(text) ==
    ContainsThen(text, AskWords, {"note", "thought", "idea", "recommendation"}) /\ ~ContainsAny(text, AddWords)

\* lines 176-177
ScheduleRule(text) ==
    /\ ContainsAny(text, ReminderWords) /\ ~ContainsAny(text, AddWords)
    /\ ContainsAny(text, QuestionWords)

\* (mutant) the fourth rule never answers
RetrievalRuleWithoutFourth(text) ==
    IF ShoppingRule(text) THEN "shoppinglist"
    ELSE IF ReminderRule(text) THEN "reminder"
    ELSE IF NoteRule(text) THEN "note"
    ELSE ""

\* the category the retrieval rules answer `text` with, "" when none fires
RetrievalRule(text) ==
    IF ShoppingRule(text) THEN "shoppinglist"
    ELSE IF ReminderRule(text) THEN "reminder"
    ELSE IF NoteRule(text) THEN "note"
    ELSE IF ScheduleRule(text) THEN "reminder"
    ELSE ""

\* what the implicit-add loop does with one action: the entry it adds, if any
ImplicitAdd(action) ==
    IF Strip(action) = "" THEN <<>>
    ELSE IF ContainsAny(Lower(action), ShoppingPhrases)
    THEN IF ShoppingObject(action) /= <<>>
         THEN <<[content |-> Strip(ShoppingObject(action)[1]), category |-> "shoppinglist"]>>
         ELSE <<>>
    ELSE IF ContainsAny(Lower(action), ReminderWords)
    THEN IF ContainsWord(Lower(action), QuestionWords)
         THEN <<>>
         ELSE <<[content |-> action, category |-> "reminder"]>>
    ELSE <<>>

ContextKeywords == {"what", "list", "show", "remind", "buy", "task", "to-do", "remember", "summary", "note"}

should_include_context(user_message) == ContainsAny(Lower(user_message), ContextKeywords)

\* the test of safe_generate's except clause on str(e)
IsRateLimit(msg) == Contains(msg, "429") \/ Contains(Lower(msg), "rate")

(***************************************************************************)
(* Record store.                                                           *)
(***************************************************************************)
\* "\n".join(lines)
RECURSIVE JoinLines(_)
JoinLines(lines) ==
    IF lines = <<>> THEN ""
    ELSE IF Len(lines) = 1 THEN lines[1]
    ELSE lines[1] \o "\n" \o JoinLines(Tail(lines))

\* (mutant) ids that count from 0
NextIdFromZero(entries) == Len(entries)

\* the id of the entry add_journal_entry appends to `entries`
NextId(entries) == Len(entries) + 1

\* (mutant) an insert at the head of the list
add_journal_entry_first(entries, content, category, tags) ==
    <<[id |-> NextId(entries),
       content |-> Strip(content),
       category |-> Lower(Strip(category)),
       tags |-> tags]>> \o entries

\* the list after add_journal_entry(content, category, tags)
add_journal_entry(entries, content, category, tags) ==
    Append(entries, [id |-> NextId(entries),
                     content |-> Strip(content),
                     category |-> Lower(Strip(category)),
                     tags |-> tags])

\* what add_journal_entry returns
AddAck(category) == [success |-> TRUE, message |-> "Added " \o category \o " entry."]

NoEntriesFound == "No entries found."

RenderLine(e) == "- [" \o e.category \o "] " \o e.content

RECURSIVE RenderLines(_)
RenderLines(entries) ==
    IF entries = <<>> THEN <<>> ELSE <<RenderLine(entries[1])>> \o RenderLines(Tail(entries))

\* (mutant) a comparison that keeps letter case
CategoryMatchesExactCase(e, category) == e.category = category

\* the category test of query_journal_entries
CategoryMatches(e, category) == Lower(e.category) = Lower(category)

\* the entries query_journal_entries keeps; search_query "" stands for None
QueryFilter(entries, category, search_query) ==
    LET InCategory(e) == category = "all" \/ CategoryMatches(e, category)
        HasText(e) == search_query = "" \/ Contains(Lower(e.content), Lower(search_query))
    IN  SelectSeq(SelectSeq(entries, InCategory), HasText)

\* (mutant) an empty rendering in place of the sentinel
query_without_sentinel(entries, category, search_query) ==
    [result |-> JoinLines(RenderLines(QueryFilter(entries, category, search_query)))]

query_journal_entries(entries, category, search_query) ==
    LET kept == QueryFilter(entries, category, search_query)
    IN  IF kept = <<>> THEN [result |-> NoEntriesFound]
        ELSE [result |-> JoinLines(RenderLines(kept))]

(***************************************************************************)
(* Tool dispatcher.  A tool call is [name, args], args a function from the *)
(* argument names the delegate gave to their values.                       *)
(***************************************************************************)
NoArgs == [k \in {} |-> ""]

ArgOr(args, k, default) == IF k \in DOMAIN args THEN args[k] ELSE default

\* lines 234-236: args with an empty category replaced by "note"
FillCategory(args) ==
    IF "category" \in DOMAIN args /\ args["category"] = ""
    THEN [args EXCEPT !["category"] = "note"]
    ELSE args

\* the TypeError of a call f(**args) that Python refuses, "" when it binds
BindError(name, args) ==
    IF name = "add_journal_entry"
    THEN IF ~(DOMAIN args \subseteq {"content", "category", "tags"})
         THEN "add_journal_entry() got an unexpected keyword argument"
         ELSE IF ~({"content", "category"} \subseteq DOMAIN args)
         THEN "add_journal_entry() missing required positional argument"
         ELSE ""
    ELSE IF name = "query_journal_entries"
    THEN IF ~(DOMAIN args \subseteq {"category", "search_query"})
         THEN "query_journal_entries() got an unexpected keyword argument"
         ELSE ""
    ELSE ""

\* (mutant) a dispatcher that raises on a name it does not know
execute_function_strict(entries, call) ==
    IF call.name \notin {"add_journal_entry", "query_journal_entries"}
    THEN [raised |-> "Unknown function", entries |-> entries, result |-> NoArgs]
    ELSE IF BindError(call.name, call.args) /= ""
    THEN [raised |-> BindError(call.name, call.args), entries |-> entries, result |-> NoArgs]
    ELSE IF call.name = "add_journal_entry"
    THEN [raised |-> "",
          entries |-> add_journal_entry(entries, call.args["content"], call.args["category"],
                                        ArgOr(call.args, "tags", <<>>)),
          result |-> AddAck(call.args["category"])]
    ELSE [raised |-> "",
          entries |-> entries,
          result |-> query_journal_entries(entries, ArgOr(call.args, "category", "all"),
                                           ArgOr(call.args, "search_query", ""))]

\* execute_function on the store `entries`: the exception it raises ("" for
\* none), the store after it and the result it returns
execute_function(entries, call) ==
    IF BindError(call.name, call.args) /= ""
    THEN [raised |-> BindError(call.name, call.args), entries |-> entries, result |-> NoArgs]
    ELSE IF call.name = "add_journal_entry"
    THEN [raised |-> "",
          entries |-> add_journal_entry(entries, call.args["content"], call.args["category"],
                                        ArgOr(call.args, "tags", <<>>)),
          result |-> AddAck(call.args["category"])]
    ELSE IF call.name = "query_journal_entries"
    THEN [raised |-> "",
          entries |-> entries,
          result |-> query_journal_entries(entries, ArgOr(call.args, "category", "all"),
                                           ArgOr(call.args, "search_query", ""))]
    ELSE [raised |-> "", entries |-> entries, result |-> [error |-> "Unknown function"]]

(***************************************************************************)
(* Bounds and inputs.                                                      *)
(***************************************************************************)
\* a prompt is accepted while the transcript holds fewer exchanges than this
MaxTurns == 2

\* retries=3 of safe_generate
Retries == 3

Messages ==
    {"task ~ 10:00 buy milk\nReminder ~ 09:00 call mom",
     "Idea ~ 2024-01-01 show reminders",
     "what's on my shopping list?",
     "show my tasks",
     "list my ideas",
     "Do I have any meetings today?",
     "Remind me to call the dentist tomorrow.",
     "Remind me to call the doctor.",
     "I need to buy milk",
     "Schedule gym. add meeting friday",
     "add milk to shopping list",
     "hello"}

\* str(e) of the exceptions generate_content raises
Errors == {"429 Too Many Requests", "Rate limit exceeded", "500 internal error"}

ToolCalls ==
    [add      |-> [name |-> "add_journal_entry", args |-> [content |-> " green tea ", category |-> "Note"]],
     addEmpty |-> [name |-> "add_journal_entry", args |-> [content |-> "milk", category |-> ""]],
     addNoCat |-> [name |-> "add_journal_entry", args |-> [content |-> "milk"]],
     queryAll |-> [name |-> "query_journal_entries", args |-> [category |-> "all"]],
     queryCat |-> [name |-> "query_journal_entries", args |-> [category |-> "Reminder"]],
     queryDef |-> [name |-> "query_journal_entries", args |-> NoArgs],
     unknown  |-> [name |-> "delete_journal_entry", args |-> NoArgs]]

\* what the model answers: its text and the function calls of its parts
Responses ==
    {[text |-> "Okay.", calls |-> <<>>],
     [text |-> "", calls |-> <<ToolCalls.addEmpty, ToolCalls.queryAll>>],
     [text |-> "", calls |-> <<ToolCalls.unknown, ToolCalls.queryCat>>],
     [text |-> "", calls |-> <<ToolCalls.add, ToolCalls.addNoCat>>]}

\* what the model answers to the function results
SecondResponses ==
    {[text |-> "Done.", calls |-> <<>>],
     [text |-> "", calls |-> <<ToolCalls.add>>]}

(***************************************************************************)
(* The extractors applied to each message and the except clause applied to *)
(* each error, evaluated once: the actions look the values up.             *)
(***************************************************************************)
\* line 154
Text(user_message) == Lower(Strip(user_message))

\* the entries the implicit-add loop adds for the actions, in order
RECURSIVE ImplicitAdds(_)
ImplicitAdds(actions) ==
    IF actions = <<>> THEN <<>> ELSE ImplicitAdd(actions[1]) \o ImplicitAdds(Tail(actions))

BulkOf == [m \in Messages |-> parse_bulk_entries(m)]

RuleOf == [m \in Messages |-> RetrievalRule(Text(m))]

AddsOf == [m \in Messages |-> ImplicitAdds(SplitActions(m))]

WantsContext == {m \in Messages : should_include_context(m)}

RateLimitErrors == {e \in Errors : IsRateLimit(e)}

(***************************************************************************)
(* State.                                                                  *)
(***************************************************************************)
VARIABLES
    journal_entries,  \* st.session_state.journal_entries
    chat_history,     \* st.session_state.chat_history
    pc,               \* where the script run is
    clicked,          \* the clear button was clicked for this run
    prompt,           \* what st.chat_input returned for this run ("": None)
    round,            \* 0, or which safe_generate call of the pass is running
    attempt,          \* safe_generate's loop variable
    response,         \* process_message's variable `response`
    function_calls,   \* the function calls of the first response
    results,          \* the function responses collected so far
    reply,            \* what process_message returns
    slept,            \* the time the running safe_generate call has slept
    gen_log,          \* what the running safe_generate call has done
    tries,            \* how often the pass has called generate_content
    sent,             \* the contents of the safe_generate calls of the pass
    trace,            \* the stages the pass has run
    store0,           \* the store when the pass began
    qlog,             \* the query_journal_entries calls of the pass
    pre_clear,        \* the state the running clear found
    assigned          \* the highest id add_journal_entry has assigned so far (0: none)

vars == <<journal_entries, chat_history, pc, clicked, prompt, round, attempt, response,
          function_calls, results, reply, slept, gen_log, tries, sent, trace, store0,
          qlog,
          pre_clear, assigned>>

session == <<journal_entries, chat_history>>

locals == <<round, attempt, response, function_calls, results, reply>>

ghosts == <<slept, gen_log, tries, sent, trace, store0, qlog>>

NoResponse == [text |-> "", calls |-> <<>>]

NoClear == [running |-> FALSE, entries |-> <<>>, history |-> <<>>]

Init ==
    /\ journal_entries = <<>>
    /\ chat_history = <<>>
    /\ pc = "idle"
    /\ clicked = FALSE
    /\ prompt = ""
    /\ round = 0
    /\ attempt = 0
    /\ response = NoResponse
    /\ function_calls = <<>>
    /\ results = <<>>
    /\ reply = ""
    /\ slept = 0
    /\ gen_log = <<>>
    /\ tries = 0
    /\ sent = <<>>
    /\ trace = <<>>
    /\ store0 = <<>>
    /\ qlog = <<>>
    /\ pre_clear = NoClear
    /\ assigned = 0

(***************************************************************************)
(* The script: sidebar, clear button, chat.                                *)
(***************************************************************************)
\* the user clicks "Clear All Entries": the script runs with the button set
ClickClear ==
    /\ pc = "idle"
    /\ pc' = "sidebar"
    /\ clicked' = TRUE
    /\ UNCHANGED <<session, prompt, locals, ghosts, pre_clear, assigned>>

\* the user submits a message: the script runs with the chat input set
SubmitPrompt ==
    /\ pc = "idle"
    /\ Len(chat_history) < 2 * MaxTurns
    /\ \E m \in Messages : prompt' = m
    /\ pc' = "sidebar"
    /\ UNCHANGED <<session, clicked, locals, ghosts, pre_clear, assigned>>

\* lines 258-280: the sidebar shows the entries, then tests the button
RenderSidebar ==
    /\ pc = "sidebar"
    /\ pc' = IF clicked THEN "clear_entries" ELSE "main"
    /\ pre_clear' = NoClear
    /\ UNCHANGED <<session, clicked, prompt, locals, ghosts, assigned>>

\* line 281
ClearEntries ==
    /\ pc = "clear_entries"
    /\ pre_clear' = [running |-> TRUE, entries |-> journal_entries, history |-> chat_history]
    /\ journal_entries' = <<>>
    /\ pc' = "clear_history"
    /\ UNCHANGED <<chat_history, clicked, prompt, locals, ghosts, assigned>>

\* (mutant) the transcript is left as it is
ClearHistoryForgotten ==
    /\ pc = "clear_history"
    /\ pc' = "clear_rerun"
    /\ UNCHANGED <<session, clicked, prompt, locals, ghosts, pre_clear, assigned>>

\* line 282
ClearHistory ==
    /\ pc = "clear_history"
    /\ chat_history' = <<>>
    /\ pc' = "clear_rerun"
    /\ UNCHANGED <<journal_entries, clicked, prompt, locals, ghosts, pre_clear, assigned>>

\* line 283: st.rerun() starts the script again, no widget set
ClearRerun ==
    /\ pc = "clear_rerun"
    /\ pc' = "sidebar"
    /\ clicked' = FALSE
    /\ UNCHANGED <<session, prompt, locals, ghosts, pre_clear, assigned>>

\* lines 286-300: the chat shows the transcript; a prompt is appended to it
\* and handed to process_message
RenderMain ==
    /\ pc = "main"
    /\ IF prompt = ""
       THEN /\ pc' = "idle"
            /\ UNCHANGED <<chat_history, store0>>
       ELSE /\ chat_history' = Append(chat_history, [role |-> "user", content |-> prompt])
            /\ store0' = journal_entries
            /\ pc' = "bulk"
    /\ UNCHANGED <<journal_entries, clicked, prompt, locals, slept, gen_log, tries, sent, trace,
                   qlog, pre_clear, assigned>>

\* lines 301-304: the reply is shown and appended, st.rerun() starts the
\* script again with no widget set
Finish ==
    /\ pc = "return"
    /\ chat_history' = Append(chat_history, [role |-> "assistant", content |-> reply])
    /\ pc' = "sidebar"
    /\ prompt' = ""
    /\ round' = 0
    /\ attempt' = 0
    /\ response' = NoResponse
    /\ function_calls' = <<>>
    /\ results' = <<>>
    /\ reply' = ""
    /\ slept' = 0
    /\ gen_log' = <<>>
    /\ tries' = 0
    /\ sent' = <<>>
    /\ trace' = <<>>
    /\ store0' = <<>>
    /\ qlog' = <<>>
    /\ UNCHANGED <<journal_entries, clicked, pre_clear, assigned>>

(***************************************************************************)
(* process_message.                                                        *)
(***************************************************************************)
\* (mutant) a loop that ends after its first item
AddFirstOnly(entries, items) ==
    IF items = <<>> THEN entries
    ELSE add_journal_entry(entries, items[1].content, items[1].category, ArgOr(items[1], "tags", <<>>))

\* the store after add_journal_entry for each item in turn
RECURSIVE AddAll(_, _)
AddAll(entries, items) ==
    IF items = <<>> THEN entries
    ELSE AddAll(add_journal_entry(entries, items[1].content, items[1].category,
                                  ArgOr(items[1], "tags", <<>>)),
                Tail(items))

\* line 161
BulkSummary(n) == "Added " \o ToString(n) \o " journal entries successfully."

\* line 206
ImplicitSummary(n) ==
    "Added " \o ToString(n) \o " journal entr" \o (IF n = 1 THEN "y" ELSE "ies") \o " successfully."

\* line 255
ErrorReply(msg) == "Error: " \o msg

\* line 42
ExhaustedMessage == "Failed after multiple retries due to rate limits."

\* (mutant) a backoff that starts at 0
BackoffFromZero(n) == n * 5

\* line 39: the sleep after a rate-limit failure of attempt number `n`
Backoff(n) == (n + 1) * 5

Stage(name, hit) == [stage |-> name, hit |-> hit]

\* the highest id assigned once the store `before` has grown to `after`
Assigned(before, after, highest) ==
    SetMax({highest} \cup {after[k].id : k \in (Len(before) + 1)..Len(after)})

\* lines 157-161: bulk extraction found tuples, each is added
BulkApply ==
    /\ pc = "bulk"
    /\ BulkOf[prompt] /= <<>>
    /\ journal_entries' = AddAll(journal_entries, BulkOf[prompt])
    /\ assigned' = Assigned(journal_entries, journal_entries', assigned)
    /\ reply' = BulkSummary(Len(BulkOf[prompt]))
    /\ trace' = Append(trace, Stage("bulk", TRUE))
    /\ pc' = "return"
    /\ UNCHANGED <<chat_history, clicked, prompt, round, attempt, response, function_calls,
                   results, slept, gen_log, tries, sent, store0, qlog, pre_clear>>

\* (mutant) a bulk miss that goes past the retrieval rules
BulkMissSkipsRetrieval ==
    /\ pc = "bulk"
    /\ BulkOf[prompt] = <<>>
    /\ trace' = Append(trace, Stage("bulk", FALSE))
    /\ pc' = "implicit"
    /\ UNCHANGED <<session, clicked, prompt, locals, slept, gen_log, tries, sent, store0, qlog,
                   pre_clear, assigned>>

\* line 158, bulk_entries empty
BulkMiss ==
    /\ pc = "bulk"
    /\ BulkOf[prompt] = <<>>
    /\ trace' = Append(trace, Stage("bulk", FALSE))
    /\ pc' = "retrieval"
    /\ UNCHANGED <<session, clicked, prompt, locals, slept, gen_log, tries, sent, store0, qlog,
                   pre_clear, assigned>>

\* lines 164-179: a retrieval rule fires, the query result is returned
RetrievalHit ==
    /\ pc = "retrieval"
    /\ RuleOf[prompt] /= ""
    /\ LET category == RuleOf[prompt]
           result == query_journal_entries(journal_entries, category, "")
       IN  /\ reply' = result.result
           /\ qlog' = Append(qlog, [category |-> category, search_query |-> "",
                                    entries |-> journal_entries, result |-> result])
    /\ trace' = Append(trace, Stage("retrieval", TRUE))
    /\ pc' = "return"
    /\ UNCHANGED <<session, clicked, prompt, round, attempt, response, function_calls, results,
                   slept, gen_log, tries, sent, store0, pre_clear, assigned>>

\* lines 164-179, no rule fires
RetrievalMiss ==
    /\ pc = "retrieval"
    /\ RuleOf[prompt] = ""
    /\ trace' = Append(trace, Stage("retrieval", FALSE))
    /\ pc' = "implicit"
    /\ UNCHANGED <<session, clicked, prompt, locals, slept, gen_log, tries, sent, store0, qlog,
                   pre_clear, assigned>>

\* lines 183-206: the implicit-add loop added entries
ImplicitApply ==
    /\ pc = "implicit"
    /\ AddsOf[prompt] /= <<>>
    /\ journal_entries' = AddAll(journal_entries, AddsOf[prompt])
    /\ assigned' = Assigned(journal_entries, journal_entries', assigned)
    /\ reply' = ImplicitSummary(Len(AddsOf[prompt]))
    /\ trace' = Append(trace, Stage("implicit", TRUE))
    /\ pc' = "return"
    /\ UNCHANGED <<chat_history, clicked, prompt, round, attempt, response, function_calls,
                   results, slept, gen_log, tries, sent, store0, qlog, pre_clear>>

\* lines 183-205, added_count is 0
ImplicitMiss ==
    /\ pc = "implicit"
    /\ AddsOf[prompt] = <<>>
    /\ trace' = Append(trace, Stage("implicit", FALSE))
    /\ pc' = "delegate"
    /\ UNCHANGED <<session, clicked, prompt, locals, slept, gen_log, tries, sent, store0, qlog,
                   pre_clear, assigned>>

\* line 211
ContextWindow == 10

\* (mutant) a context block of the oldest entries
ContentsOldest(entries, user_message) ==
    IF user_message \in WantsContext /\ entries /= <<>>
    THEN <<"Here are recent journal entries:\n"
           \o JoinLines(RenderLines(SubSeq(entries, 1,
                                           IF Len(entries) > ContextWindow
                                           THEN ContextWindow ELSE Len(entries)))),
           user_message>>
    ELSE <<user_message>>

\* lines 209-216: the contents of the first call
Contents(entries, user_message) ==
    IF user_message \in WantsContext /\ entries /= <<>>
    THEN <<"Here are recent journal entries:\n"
           \o JoinLines(RenderLines(SubSeq(entries,
                                           IF Len(entries) > ContextWindow
                                           THEN Len(entries) - ContextWindow + 1 ELSE 1,
                                           Len(entries)))),
           user_message>>
    ELSE <<user_message>>

\* lines 208-223: the first safe_generate call begins
DelegateCall ==
    /\ pc = "delegate"
    /\ sent' = Append(sent, Contents(journal_entries, prompt))
    /\ round' = 1
    /\ attempt' = 0
    /\ slept' = 0
    /\ gen_log' = <<>>
    /\ tries' = 0
    /\ trace' = Append(trace, Stage("delegate", TRUE))
    /\ pc' = "generate"
    /\ UNCHANGED <<session, clicked, prompt, response, function_calls, results, reply,
                   store0, qlog, pre_clear, assigned>>

Event(ev, n) == [ev |-> ev, n |-> n]

\* (mutant) the function calls of the second response start the tool loop
\* again
AttemptReturnsAgain ==
    /\ pc = "generate"
    /\ attempt < Retries
    /\ \E r \in (IF round = 1 THEN Responses ELSE SecondResponses) :
        /\ response' = r
        /\ IF r.calls /= <<>>
           THEN /\ function_calls' = r.calls
                /\ pc' = "tools"
                /\ UNCHANGED reply
           ELSE /\ reply' = r.text
                /\ pc' = "return"
                /\ UNCHANGED function_calls
    /\ gen_log' = gen_log \o <<Event("attempt", attempt), Event("return", attempt)>>
    /\ tries' = tries + 1
    /\ UNCHANGED <<session, clicked, prompt, round, attempt, results, slept, sent, trace, store0,
                   qlog, pre_clear, assigned>>

\* lines 34-36: an attempt returns a response; lines 226-231 and 249-251
\* take its function calls or its text
AttemptReturns ==
    /\ pc = "generate"
    /\ attempt < Retries
    /\ \E r \in (IF round = 1 THEN Responses ELSE SecondResponses) :
        /\ response' = r
        /\ IF round = 1 /\ r.calls /= <<>>
           THEN /\ function_calls' = r.calls
                /\ pc' = "tools"
                /\ UNCHANGED reply
           ELSE /\ reply' = r.text
                /\ pc' = "return"
                /\ UNCHANGED function_calls
    /\ gen_log' = gen_log \o <<Event("attempt", attempt), Event("return", attempt)>>
    /\ tries' = tries + 1
    /\ UNCHANGED <<session, clicked, prompt, round, attempt, results, slept, sent, trace, store0,
                   qlog, pre_clear, assigned>>

\* lines 37-39: an attempt fails with a rate-limit error, the call sleeps
AttemptRateLimited ==
    /\ pc = "generate"
    /\ attempt < Retries
    /\ \E e \in Errors : e \in RateLimitErrors
    /\ slept' = slept + Backoff(attempt)
    /\ gen_log' = gen_log \o <<Event("attempt", attempt), Event("sleep", Backoff(attempt))>>
    /\ attempt' = attempt + 1
    /\ tries' = tries + 1
    /\ UNCHANGED <<session, pc, clicked, prompt, round, response, function_calls, results, reply,
                   sent, trace, store0, qlog, pre_clear, assigned>>

\* (mutant) another error is slept on and retried like a rate-limit error
AttemptFailsRetried ==
    /\ pc = "generate"
    /\ attempt < Retries
    /\ \E e \in Errors : e \notin RateLimitErrors
    /\ slept' = slept + Backoff(attempt)
    /\ gen_log' = gen_log \o <<Event("attempt", attempt), Event("raise", 0),
                                Event("sleep", Backoff(attempt))>>
    /\ attempt' = attempt + 1
    /\ tries' = tries + 1
    /\ UNCHANGED <<session, pc, clicked, prompt, round, response, function_calls, results, reply,
                   sent, trace, store0, qlog, pre_clear, assigned>>

\* lines 40-41 and 253-255: an attempt fails with another error, which
\* process_message turns into the reply
AttemptFails ==
    /\ pc = "generate"
    /\ attempt < Retries
    /\ \E e \in Errors :
        /\ e \notin RateLimitErrors
        /\ reply' = ErrorReply(e)
        /\ gen_log' = gen_log \o <<Event("attempt", attempt), Event("raise", 0)>>
    /\ pc' = "return"
    /\ tries' = tries + 1
    /\ UNCHANGED <<session, clicked, prompt, round, attempt, response, function_calls, results,
                   slept, sent, trace, store0, qlog, pre_clear, assigned>>

\* line 42 and 253-255: the loop ends, the RuntimeError becomes the reply
RetriesExhausted ==
    /\ pc = "generate"
    /\ attempt >= Retries
    /\ reply' = ErrorReply(ExhaustedMessage)
    /\ gen_log' = Append(gen_log, Event("exhausted", 0))
    /\ pc' = "return"
    /\ UNCHANGED <<session, clicked, prompt, round, attempt, response, function_calls, results,
                   slept, sent, trace, store0, qlog, pre_clear, assigned, tries>>

\* (mutant) a dispatch that undoes the creates of the pass when it raises
DispatchNextRollsBack ==
    /\ pc = "tools"
    /\ Len(results) < Len(function_calls)
    /\ LET f == function_calls[Len(results) + 1]
           args == FillCategory(f.args)
           out == execute_function(journal_entries, [name |-> f.name, args |-> args])
       IN  IF out.raised /= ""
           THEN /\ reply' = ErrorReply(out.raised)
                /\ pc' = "return"
                /\ journal_entries' = store0
                /\ UNCHANGED <<results, qlog, assigned>>
           ELSE /\ journal_entries' = out.entries
                /\ assigned' = Assigned(journal_entries, out.entries, assigned)
                /\ results' = Append(results, [name |-> f.name, response |-> out.result])
                /\ qlog' = IF f.name = "query_journal_entries"
                           THEN Append(qlog, [category |-> ArgOr(args, "category", "all"),
                                              search_query |-> ArgOr(args, "search_query", ""),
                                              entries |-> journal_entries,
                                              result |-> out.result])
                           ELSE qlog
                /\ UNCHANGED <<reply, pc>>
    /\ UNCHANGED <<chat_history, clicked, prompt, round, attempt, response, function_calls,
                   slept, gen_log, tries, sent, trace, store0, pre_clear>>

\* lines 233-238: the next function call is dispatched
DispatchNext ==
    /\ pc = "tools"
    /\ Len(results) < Len(function_calls)
    /\ LET f == function_calls[Len(results) + 1]
           args == FillCategory(f.args)
           out == execute_function(journal_entries, [name |-> f.name, args |-> args])
       IN  IF out.raised /= ""
           THEN /\ reply' = ErrorReply(out.raised)
                /\ pc' = "return"
                /\ UNCHANGED <<journal_entries, results, qlog, assigned>>
           ELSE /\ journal_entries' = out.entries
                /\ assigned' = Assigned(journal_entries, out.entries, assigned)
                /\ results' = Append(results, [name |-> f.name, response |-> out.result])
                /\ qlog' = IF f.name = "query_journal_entries"
                           THEN Append(qlog, [category |-> ArgOr(args, "category", "all"),
                                              search_query |-> ArgOr(args, "search_query", ""),
                                              entries |-> journal_entries,
                                              result |-> out.result])
                           ELSE qlog
                /\ UNCHANGED <<reply, pc>>
    /\ UNCHANGED <<chat_history, clicked, prompt, round, attempt, response, function_calls,
                   slept, gen_log, tries, sent, trace, store0, pre_clear>>

\* (mutant) the results first, then the function calls
ReplayResultsFirst(calls, res) ==
    [i \in 1..(Len(calls) + Len(res)) |->
        IF i <= Len(res)
        THEN [part |-> "function_response", name |-> res[i].name, response |-> res[i].response]
        ELSE [part |-> "function_call", name |-> calls[i - Len(res)].name,
              args |-> calls[i - Len(res)].args]]

\* lines 243-246: the function calls as received, then the results
Replay(calls, res) ==
    [i \in 1..(Len(calls) + Len(res)) |->
        IF i <= Len(calls)
        THEN [part |-> "function_call", name |-> calls[i].name, args |-> calls[i].args]
        ELSE [part |-> "function_response", name |-> res[i - Len(calls)].name,
              response |-> res[i - Len(calls)].response]]

\* lines 240-248: every call is dispatched, the second safe_generate call begins
SecondCall ==
    /\ pc = "tools"
    /\ Len(results) = Len(function_calls)
    /\ sent' = Append(sent, Replay(function_calls, results))
    /\ round' = 2
    /\ attempt' = 0
    /\ slept' = 0
    /\ gen_log' = <<>>
    /\ pc' = "generate"
    /\ UNCHANGED <<session, clicked, prompt, response, function_calls, results, reply,
                   trace, store0, qlog, pre_clear, assigned, tries>>

Next ==
    \/ ClickClear
    \/ SubmitPrompt
    \/ RenderSidebar
    \/ ClearEntries
    \/ ClearHistory
    \/ ClearRerun
    \/ RenderMain
    \/ BulkApply
    \/ BulkMiss
    \/ RetrievalHit
    \/ RetrievalMiss
    \/ ImplicitApply
    \/ ImplicitMiss
    \/ DelegateCall
    \/ AttemptReturns
    \/ AttemptRateLimited
    \/ AttemptFails
    \/ RetriesExhausted
    \/ DispatchNext
    \/ SecondCall
    \/ Finish

Spec == Init /\ [][Next]_vars

\* a step of process_message
PassStep ==
    \/ BulkApply \/ BulkMiss
    \/ RetrievalHit \/ RetrievalMiss
    \/ ImplicitApply \/ ImplicitMiss
    \/ DelegateCall
    \/ AttemptReturns \/ AttemptRateLimited \/ AttemptFails \/ RetriesExhausted
    \/ DispatchNext \/ SecondCall

\* process_message runs in the script thread and every call of
\* generate_content answers or fails: a pass that can take a step takes one
SpecFair == Spec /\ WF_vars(PassStep)

(***************************************************************************)
(* A long session: the script after PastTurns exchanges, then ContextTurns *)
(* more, with no clear.                                                    *)
(***************************************************************************)
\* the exchanges before the first state
PastTurns == 6

\* the exchanges after it
ContextTurns == 1

BulkMessage == "task ~ 10:00 buy milk\nReminder ~ 09:00 call mom"

ImplicitMessage == "I need to buy milk"

PlainMessage == "hello"

\* how many of the past exchanges were bulk pastes and how many implicit
\* adds; the others were answered by the model with a text
PastSessions == {<<0, 0>>, <<4, 1>>, <<5, 0>>, <<5, 1>>, <<6, 0>>}

\* the session after one more exchange on message m, process_message
\* taking the bulk stage, the implicit-add stage or a text of the model
PastExchange(s, m) ==
    LET adds == IF BulkOf[m] /= <<>> THEN BulkOf[m] ELSE AddsOf[m]
        answer == IF BulkOf[m] /= <<>> THEN BulkSummary(Len(adds))
                  ELSE IF AddsOf[m] /= <<>> THEN ImplicitSummary(Len(adds))
                  ELSE "Okay."
    IN  [entries |-> AddAll(s.entries, adds),
         history |-> s.history \o <<[role |-> "user", content |-> m],
                                    [role |-> "assistant", content |-> answer]>>]

\* the session after b bulk pastes, i implicit adds and t plain messages
RECURSIVE PastSession(_, _, _)
PastSession(b, i, t) ==
    IF t > 0 THEN PastExchange(PastSession(b, i, t - 1), PlainMessage)
    ELSE IF i > 0 THEN PastExchange(PastSession(b, i - 1, 0), ImplicitMessage)
    ELSE IF b > 0 THEN PastExchange(PastSession(b - 1, 0, 0), BulkMessage)
    ELSE [entries |-> <<>>, history |-> <<>>]

InitContext ==
    /\ \E c \in PastSessions :
          LET s == PastSession(c[1], c[2], PastTurns - c[1] - c[2])
          IN  /\ journal_entries = s.entries
              /\ chat_history = s.history
              /\ assigned = Len(s.entries)
    /\ pc = "idle"
    /\ clicked = FALSE
    /\ prompt = ""
    /\ round = 0
    /\ attempt = 0
    /\ response = NoResponse
    /\ function_calls = <<>>
    /\ results = <<>>
    /\ reply = ""
    /\ slept = 0
    /\ gen_log = <<>>
    /\ tries = 0
    /\ sent = <<>>
    /\ trace = <<>>
    /\ store0 = <<>>
    /\ qlog = <<>>
    /\ pre_clear = NoClear

\* the user submits a message in the long session
SubmitLate ==
    /\ pc = "idle"
    /\ Len(chat_history) < 2 * (PastTurns + ContextTurns)
    /\ \E m \in Messages : prompt' = m
    /\ pc' = "sidebar"
    /\ UNCHANGED <<session, clicked, locals, ghosts, pre_clear, assigned>>

NextContext ==
    \/ SubmitLate
    \/ RenderSidebar
    \/ RenderMain
    \/ BulkApply
    \/ BulkMiss
    \/ RetrievalHit
    \/ RetrievalMiss
    \/ ImplicitApply
    \/ ImplicitMiss
    \/ DelegateCall
    \/ AttemptReturns
    \/ AttemptRateLimited
    \/ AttemptFails
    \/ RetriesExhausted
    \/ DispatchNext
    \/ SecondCall
    \/ Finish

SpecContext == InitContext /\ [][NextContext]_vars

(***************************************************************************)
(* Properties.                                                             *)
(***************************************************************************)
Last(seq) == seq[Len(seq)]

\* process_message has returned and the script has not yet gone on
Returned == pc = "return"

\* the pass ended in stage `name`
EndedIn(name) == Returned /\ trace /= <<>> /\ Last(trace) = Stage(name, TRUE)

\* the entries the pass has appended to the store it found
Appended == SubSeq(journal_entries, Len(store0) + 1, Len(journal_entries))

\* the store the pass found is still the head of the store
StoreKept == Len(store0) <= Len(journal_entries) /\ SubSeq(journal_entries, 1, Len(store0)) = store0

\* C1: the k-th add_journal_entry call since the store was last empty gave
\* its entry the id k, whatever its content and category.
C1_IdsCountFromOne == \A k \in 1..Len(journal_entries) : journal_entries[k].id = k

C1_Witness ==
    /\ Len(journal_entries) >= 3
    /\ journal_entries[1].category /= journal_entries[2].category
    /\ journal_entries[2].content /= journal_entries[3].content

\* C2 as stated: when bulk extraction yields n >= 1 tuples the pass appends
\* exactly n entries, in the extractor's order, with the extracted categories,
\* replies with the summary for n and runs no later stage.
C2_AsStated ==
    (Returned /\ BulkOf[prompt] /= <<>>) =>
        /\ StoreKept
        /\ Len(Appended) = Len(BulkOf[prompt])
        /\ \A i \in 1..Len(Appended) :
              /\ Appended[i].category = BulkOf[prompt][i].category
              /\ Appended[i].content = BulkOf[prompt][i].content
        /\ reply = "Added " \o ToString(Len(BulkOf[prompt])) \o " journal entries successfully."
        /\ trace = <<Stage("bulk", TRUE)>>
        /\ sent = <<>> /\ qlog = <<>> /\ gen_log = <<>> /\ results = <<>>

\* C2 amended: the same, the categories stored being the extracted ones in
\* lower case.
C2_BulkApplied ==
    (Returned /\ BulkOf[prompt] /= <<>>) =>
        /\ StoreKept
        /\ Len(Appended) = Len(BulkOf[prompt])
        /\ \A i \in 1..Len(Appended) :
              /\ Appended[i].category = Lower(BulkOf[prompt][i].category)
              /\ Appended[i].content = BulkOf[prompt][i].content
        /\ reply = "Added " \o ToString(Len(BulkOf[prompt])) \o " journal entries successfully."
        /\ trace = <<Stage("bulk", TRUE)>>
        /\ sent = <<>> /\ qlog = <<>> /\ gen_log = <<>> /\ results = <<>>

C2_Witness ==
    /\ Returned
    /\ Len(BulkOf[prompt]) = 2
    /\ store0 /= <<>>
    /\ Len(journal_entries) = Len(store0) + 2

\* C3: when a retrieval rule fires the reply is the query result for the
\* rule's category, the store is unchanged and the delegate is not called; on
\* an empty store the reply is the sentinel.
C3_RetrievalAnswers ==
    (Returned /\ BulkOf[prompt] = <<>> /\ RuleOf[prompt] /= "") =>
        /\ journal_entries = store0
        /\ sent = <<>> /\ gen_log = <<>> /\ results = <<>>
        /\ Len(qlog) = 1
        /\ qlog[1].category = RuleOf[prompt]
        /\ qlog[1].entries = store0
        /\ reply = qlog[1].result.result
        /\ (store0 = <<>> => reply = "No entries found.")
        /\ (prompt = "what's on my shopping list?" => qlog[1].category = "shoppinglist")

C3_Witness ==
    /\ Returned
    /\ prompt = "what's on my shopping list?"
    /\ store0 = <<>>
    /\ reply = "No entries found."


\* the messages C4 speaks of: one action segment, not bulk-shaped, no
\* shopping or buy phrasing, a reminder word, no interrogative whole word
C4_Cases ==
    {m \in Messages :
        /\ Len(SplitActions(m)) = 1
        /\ parse_bulk_entries(m) = <<>>
        /\ ~ContainsAny(Lower(m), {"shopping", "buy"})
        /\ ContainsAny(Lower(m), {"remind", "appointment", "meeting", "schedule", "event"})
        /\ ~ContainsWord(Lower(m), {"do", "does", "did", "any", "what", "show", "list",
                                    "display", "have", "are there"})}

\* C4: such a message appends exactly one 'reminder' entry whose content is
\* the trimmed message, is answered with the summary for 1 and does not reach
\* the delegate.
C4_AsStated ==
    (Returned /\ prompt \in C4_Cases) =>
        /\ StoreKept
        /\ Appended = <<[id |-> Len(store0) + 1, content |-> Strip(prompt),
                         category |-> "reminder", tags |-> <<>>]>>
        /\ reply = "Added 1 journal entry successfully."
        /\ sent = <<>>

\* the messages C5 speaks of: not bulk-shaped, none of the first three rules,
\* a reminder word and an interrogative word, neither 'add' nor 'note'
C5_Cases ==
    {m \in Messages :
        /\ parse_bulk_entries(m) = <<>>
        /\ ~ShoppingRule(Text(m)) /\ ~ReminderRule(Text(m)) /\ ~NoteRule(Text(m))
        /\ ContainsAny(Lower(m), {"remind", "appointment", "meeting", "schedule", "event"})
        /\ ContainsAny(Lower(m), {"do", "does", "did", "any", "what", "show", "list",
                                  "display", "have", "are there"})
        /\ ~Contains(Lower(m), "add") /\ ~Contains(Lower(m), "note")}

\* C5: such a message creates no entry, does not reach the delegate and is
\* answered with the result of querying category 'reminder'.
C5_QuestionIsQueried ==
    (Returned /\ prompt \in C5_Cases) =>
        /\ journal_entries = store0
        /\ sent = <<>> /\ gen_log = <<>>
        /\ Len(qlog) = 1
        /\ qlog[1].category = "reminder"
        /\ qlog[1].search_query = ""
        /\ qlog[1].entries = store0
        /\ reply = qlog[1].result.result

C5_Witness ==
    /\ Returned
    /\ prompt = "Do I have any meetings today?"
    /\ prompt \in C5_Cases
    /\ \E k \in 1..Len(store0) : store0[k].category = "reminder"
    /\ reply /= "No entries found."

\* how many times the running safe_generate call has called generate_content
Attempts == Cardinality({i \in 1..Len(gen_log) : gen_log[i].ev = "attempt"})

\* C6: safe_generate attempts at most 3 times; two rate-limit failures and a
\* success return the third attempt's response after sleeping 5 + 10; after
\* three rate-limit failures nothing but the 'retries exhausted' error follows.
C6_RetryBudget ==
    /\ Attempts <= 3
    /\ (gen_log /= <<>> /\ Last(gen_log) = Event("return", 2)) =>
          /\ gen_log = <<Event("attempt", 0), Event("sleep", 5), Event("attempt", 1),
                         Event("sleep", 10), Event("attempt", 2), Event("return", 2)>>
          /\ slept = 5 + 10
          /\ pc \in {"tools", "return"}
          /\ response \in (IF round = 1 THEN Responses ELSE SecondResponses)
          /\ (round = 2 => reply = response.text)
    /\ (pc = "generate" /\ Attempts = 3) =>
          /\ ENABLED RetriesExhausted
          /\ ~ENABLED AttemptReturns
          /\ ~ENABLED AttemptRateLimited
          /\ ~ENABLED AttemptFails
    /\ (gen_log /= <<>> /\ Last(gen_log).ev = "exhausted") =>
          /\ Attempts = 3
          /\ pc = "return"
          /\ reply = "Error: Failed after multiple retries due to rate limits."

C6_Witness ==
    /\ gen_log /= <<>>
    /\ Last(gen_log) = Event("return", 2)
    /\ slept = 15
    /\ pc = "return"
    /\ reply = "Done."

\* one of store and transcript is empty because of the running clear while
\* the other still holds what the clear found
HalfCleared ==
    /\ pre_clear.running
    /\ \/ /\ journal_entries = <<>>
          /\ chat_history /= <<>>
          /\ chat_history = pre_clear.history
       \/ /\ chat_history = <<>>
          /\ journal_entries /= <<>>
          /\ journal_entries = pre_clear.entries

\* C7: a half-cleared state exists only between lines 281 and 282, where
\* nothing renders, processes a message or starts another clear.
C7_ClearIsOneUnit == HalfCleared => pc = "clear_history"

C7_Witness ==
    /\ pc = "clear_rerun"
    /\ pre_clear.running
    /\ pre_clear.entries /= <<>>
    /\ pre_clear.history /= <<>>
    /\ journal_entries = <<>>
    /\ chat_history = <<>>

\* the positions of the entries a query for `category` is to return
C8_Keep(q) ==
    {k \in 1..Len(q.entries) : q.category = "all" \/ Lower(q.entries[k].category) = Lower(q.category)}

\* the lines of the positions `keep` from position k on, oldest first
RECURSIVE C8_Render(_, _, _)
C8_Render(entries, keep, k) ==
    IF k > Len(entries) THEN ""
    ELSE IF k \in keep
    THEN "- [" \o entries[k].category \o "] " \o entries[k].content
         \o (IF \E j \in keep : j > k THEN "\n" ELSE "")
         \o C8_Render(entries, keep, k + 1)
    ELSE C8_Render(entries, keep, k + 1)

\* C8: every query without a search text, from a retrieval rule or from the
\* dispatcher, returns the entries of all categories ('all') or of the asked
\* category compared without letter case, in insertion order, and the
\* sentinel 'No entries found.' when it keeps none.
C8_QueryByCategory ==
    \A i \in 1..Len(qlog) :
        LET q == qlog[i]
        IN  q.search_query = "" =>
              /\ DOMAIN q.result = {"result"}
              /\ IF C8_Keep(q) = {}
                 THEN q.result.result = "No entries found."
                 ELSE q.result.result = C8_Render(q.entries, C8_Keep(q), 1)
              /\ (q.category = "all" => C8_Keep(q) = 1..Len(q.entries))

\* a query for "Reminder" keeps the younger of two entries, stored as
\* "reminder", and leaves the other; a query for all returns both
C8_Witness ==
    /\ Returned
    /\ Len(qlog) = 1
    /\ qlog[1].category = "Reminder"
    /\ Len(qlog[1].entries) = 2
    /\ C8_Keep(qlog[1]) = {2}
    /\ qlog[1].entries[2].category = "reminder"
    /\ qlog[1].result.result = "- [reminder] call mom"

C9_StageOrder == <<"bulk", "retrieval", "implicit", "delegate">>

\* whether stage number i produces output for the message of the pass
C9_Produced(i) ==
    CASE i = 1 -> BulkOf[prompt] /= <<>>
      [] i = 2 -> RuleOf[prompt] /= ""
      [] i = 3 -> AddsOf[prompt] /= <<>>
      [] OTHER -> TRUE

\* C9: the stages of a pass run in the order bulk, retrieval rules, implicit
\* add, delegate; a stage runs only after every stage before it produced
\* nothing and the pass returns from the first stage that produces output:
\* the delegate is called only when bulk found no tuple, no rule fired and
\* the implicit add created nothing, and the implicit add creates entries
\* only when bulk found no tuple and no rule fired.
C9_StagesInOrder ==
    /\ Len(trace) <= 4
    /\ \A i \in 1..Len(trace) :
          /\ trace[i].stage = C9_StageOrder[i]
          /\ trace[i].hit = C9_Produced(i)
          /\ (i < Len(trace) => ~trace[i].hit)
    /\ (Returned => trace /= <<>> /\ Last(trace).hit)
    /\ (pc \in {"generate", "tools"} => Len(trace) = 4)
    /\ (sent /= <<>> =>
          /\ Len(trace) = 4
          /\ ~C9_Produced(1) /\ ~C9_Produced(2) /\ ~C9_Produced(3)
          /\ pc \in {"generate", "tools", "return"})
    /\ (Len(trace) < 4 => sent = <<>> /\ results = <<>> /\ gen_log = <<>>)
    /\ (Len(trace) >= 3 /\ trace[3].hit => ~C9_Produced(1) /\ ~C9_Produced(2))
    /\ (Returned /\ Len(trace) \in {1, 3} => Appended /= <<>> /\ StoreKept)
    /\ (trace /= <<>> /\ ~Last(trace).hit => journal_entries = store0)
    /\ (Len(trace) = 2 => journal_entries = store0)

\* a pass went through all four stages and its delegate call dispatched tools
C9_Witness ==
    /\ Returned
    /\ Len(trace) = 4
    /\ \A i \in 1..3 : ~trace[i].hit
    /\ results /= <<>>
    /\ prompt = "hello"

\* the delegate stage has received the first response of the model
FirstResponded ==
    /\ Len(trace) = 4
    /\ \/ round = 2
       \/ round = 1 /\ \E i \in 1..Len(gen_log) : gen_log[i].ev = "return"

\* the store after the first n of the calls went through the dispatcher
RECURSIVE C10_Run(_, _, _)
C10_Run(entries, calls, n) ==
    IF n = 0 THEN entries
    ELSE execute_function(C10_Run(entries, calls, n - 1),
                          [name |-> calls[n].name, args |-> FillCategory(calls[n].args)]).entries

\* what holds of the tool loop at every moment: the dispatcher is called for
\* the function calls of the first response only, in their order, and the
\* second call carries the calls as received followed by the results
C10_Common ==
    /\ Len(sent) <= 2
    /\ Len(results) <= Len(function_calls)
    /\ (function_calls /= <<>> => FirstResponded /\ function_calls \in {r.calls : r \in Responses})
    /\ \A i \in 1..Len(results) : results[i].name = function_calls[i].name
    /\ (Len(trace) = 4 => journal_entries = C10_Run(store0, function_calls, Len(results)))
    /\ (round = 2 <=> Len(sent) = 2)
    /\ (Len(sent) = 2 =>
          /\ function_calls /= <<>>
          /\ Len(results) = Len(function_calls)
          /\ Len(sent[2]) = 2 * Len(function_calls)
          /\ \A i \in 1..Len(function_calls) :
                /\ sent[2][i] = [part |-> "function_call", name |-> function_calls[i].name,
                                 args |-> function_calls[i].args]
                /\ sent[2][Len(function_calls) + i] =
                      [part |-> "function_response", name |-> results[i].name,
                       response |-> results[i].response])

\* C10 as stated: after a first response with tool calls the pass always ends
\* with every call dispatched, one second call and the second response's
\* text as the reply.
C10_AsStated ==
    (Returned /\ FirstResponded) =>
        IF function_calls /= <<>>
        THEN /\ Len(results) = Len(function_calls)
             /\ Len(sent) = 2
             /\ Last(gen_log).ev = "return"
             /\ reply = response.text
        ELSE /\ Len(sent) = 1
             /\ results = <<>>
             /\ reply = response.text

\* C10 (amended): the tool calls of the first response are dispatched in
\* response order up to the first that raises; if none raises, exactly one
\* second call is issued with the calls followed by their results, and the
\* text of its response, if it returns one, is the reply; a raising
\* dispatch or a failing second call makes the error string the reply, and
\* after a raising dispatch no further call is dispatched or issued.  With no
\* tool calls there is no dispatch and no second call, and the text of the
\* first response is the reply.
C10_TwoRounds ==
    /\ C10_Common
    /\ (Returned /\ FirstResponded) =>
          IF function_calls = <<>>
          THEN /\ Len(sent) = 1
               /\ results = <<>>
               /\ qlog = <<>>
               /\ journal_entries = store0
               /\ response \in Responses
               /\ reply = response.text
          ELSE IF Len(results) < Len(function_calls)
          THEN LET f == function_calls[Len(results) + 1]
                   out == execute_function(journal_entries,
                                           [name |-> f.name, args |-> FillCategory(f.args)])
               IN  /\ out.raised /= ""
                   /\ reply = "Error: " \o out.raised
                   /\ Len(sent) = 1
                   /\ \A i \in 1..Len(results) :
                         execute_function(C10_Run(store0, function_calls, i - 1),
                                          [name |-> function_calls[i].name,
                                           args |-> FillCategory(function_calls[i].args)]).raised = ""
          ELSE /\ Len(sent) = 2
               /\ IF Last(gen_log).ev = "return"
                  THEN response \in SecondResponses /\ reply = response.text
                  ELSE /\ Last(gen_log).ev \in {"raise", "exhausted"}
                       /\ SubSeq(reply, 1, 7) = "Error: "

\* two tool calls were dispatched in order, the second call replayed them
\* with their results and its text became the reply
C10_Witness ==
    /\ Returned
    /\ FirstResponded
    /\ function_calls = <<ToolCalls.addEmpty, ToolCalls.queryAll>>
    /\ Len(results) = 2
    /\ results[1].name = "add_journal_entry"
    /\ results[2].name = "query_journal_entries"
    /\ results[2].response.result /= "No entries found."
    /\ Len(sent) = 2
    /\ Len(sent[2]) = 4
    /\ reply = "Done."

\* the names the dispatcher knows
KnownNames == {"add_journal_entry", "query_journal_entries"}

UnknownFunction == [error |-> "Unknown function"]

\* the tool loop is about to dispatch a call with a name the dispatcher does
\* not know
C11_AtUnknown ==
    /\ pc = "tools"
    /\ Len(results) < Len(function_calls)
    /\ function_calls[Len(results) + 1].name \notin KnownNames

\* C11: a tool call with a name other than add_journal_entry and
\* query_journal_entries does not raise: its dispatch leaves the store as it
\* is and yields the 'Unknown function' object as its result, the loop goes
\* on to the calls after it, and the second call carries the object as the
\* function response of that call.
C11_UnknownIsAResult ==
    /\ [](\A i \in 1..Len(function_calls) :
            function_calls[i].name \notin KnownNames =>
              /\ (i <= Len(results) =>
                    results[i] = [name |-> function_calls[i].name, response |-> UnknownFunction])
              /\ (Returned /\ Len(results) < Len(function_calls) => i /= Len(results) + 1)
              /\ (Len(sent) = 2 =>
                    sent[2][Len(function_calls) + i] =
                       [part |-> "function_response", name |-> function_calls[i].name,
                        response |-> UnknownFunction]))
    /\ [][C11_AtUnknown =>
            /\ journal_entries' = journal_entries
            /\ results' = Append(results, [name |-> function_calls[Len(results) + 1].name,
                                           response |-> UnknownFunction])
            /\ pc' = "tools"
            /\ reply' = reply]_vars

\* an unknown call was answered with the error object, the call after it ran
\* its query, and the second call carried both results
C11_Witness ==
    /\ Returned
    /\ function_calls = <<ToolCalls.unknown, ToolCalls.queryCat>>
    /\ Len(results) = 2
    /\ results[1].response = UnknownFunction
    /\ Len(qlog) = 1
    /\ Len(sent) = 2
    /\ sent[2][3].response = UnknownFunction
    /\ sent[2][4].name = "query_journal_entries"
    /\ reply = "Done."
    /\ journal_entries = store0
    /\ store0 /= <<>>

\* the category of a tool call is missing or empty
C12_Unfilled(f) == "category" \notin DOMAIN f.args \/ f.args["category"] = ""

\* C12 as stated: every add_journal_entry call of the model that has content
\* and a missing or empty category is dispatched without failing and
\* appends an entry of category 'note'.
C12_AsStated ==
    \A i \in 1..Len(function_calls) :
        LET f == function_calls[i]
        IN  (f.name = "add_journal_entry" /\ "content" \in DOMAIN f.args /\ C12_Unfilled(f)) =>
              /\ ~(Returned /\ Len(results) = i - 1)
              /\ (Len(results) >= i =>
                    /\ results[i].response = [success |-> TRUE, message |-> "Added note entry."]
                    /\ \E k \in 1..Len(Appended) :
                          /\ Appended[k].category = "note"
                          /\ Appended[k].content = Strip(f.args["content"]))

\* the error messages that are not rate-limit errors by their text: neither
\* "429" nor "rate" in any letter case
C13_OtherErrors == {e \in Errors : ~Contains(e, "429") /\ ~Contains(Lower(e), "rate")}

\* the time slept by a call whose attempts 0..n-1 failed with rate-limit errors
C13_SleptBefore(n) == (5 * n * (n + 1)) \div 2

InPass == pc \in {"bulk", "retrieval", "implicit", "delegate", "generate", "tools"}

\* a safe_generate call of the pass ended in an exception
C14_GenerateFailed == gen_log /= <<>> /\ Last(gen_log).ev \in {"raise", "exhausted"}

\* a dispatch of the pass ended in an exception
C14_DispatchFailed == Returned /\ Len(results) < Len(function_calls)

\* how many of the dispatched calls created an entry
C14_Created == Cardinality({i \in 1..Len(results) : results[i].name = "add_journal_entry"})

\* C14: process_message returns where an exception arises: an exception of
\* a safe_generate call of either round (retries exhausted or another
\* error) or of a dispatch becomes the reply 'Error: ...', the entries
\* created earlier in the pass stay in the store behind the entries the pass
\* found, which are unchanged, and the script appends the error reply to
\* the transcript.
C14_NeverRaises ==
    /\ [](pc = "generate" => ENABLED AttemptReturns \/ ENABLED RetriesExhausted)
    /\ [](C14_GenerateFailed \/ C14_DispatchFailed =>
            /\ pc = "return"
            /\ Len(trace) = 4
            /\ Len(reply) > 7
            /\ SubSeq(reply, 1, 7) = "Error: "
            /\ StoreKept
            /\ Len(Appended) = C14_Created
            /\ \A k \in 1..Len(Appended) : Appended[k].id = Len(store0) + k
            /\ ENABLED Finish)
    /\ [][pc = "return" =>
            /\ pc' = "sidebar"
            /\ journal_entries' = journal_entries
            /\ chat_history' = Append(chat_history, [role |-> "assistant", content |-> reply])]_vars

\* the second tool call of a response raised after the first had created an
\* entry: the entry stays, behind an entry of an earlier pass
C14_Witness ==
    /\ C14_DispatchFailed
    /\ function_calls = <<ToolCalls.add, ToolCalls.addNoCat>>
    /\ Len(results) = 1
    /\ store0 /= <<>>
    /\ journal_entries = Append(store0, [id |-> Len(store0) + 1, content |-> "green tea",
                                        category |-> "note", tags |-> <<>>])
    /\ reply = "Error: add_journal_entry() missing required positional argument"

\* C15 as stated: whatever creates and clears came before, an entry that is
\* created gets an id greater than every id assigned so far, so that no id
\* is assigned twice.
C15_AsStated ==
    [][\A k \in (Len(journal_entries) + 1)..Len(journal_entries') :
          journal_entries'[k].id > assigned]_vars

\* C16 as stated: a sleep of safe_generate follows the rate-limit failure of
\* attempt number n, lasts (n + 1) * 5 and is followed by another attempt:
\* the call does nothing else after a sleep, and does not sleep after the
\* failure of its last attempt.
C16_AsStated ==
    \A i \in 1..Len(gen_log) :
        gen_log[i].ev = "sleep" =>
          /\ i > 1
          /\ gen_log[i - 1].ev = "attempt"
          /\ gen_log[i].n = (gen_log[i - 1].n + 1) * 5
          /\ gen_log[i - 1].n < Retries - 1
          /\ (i < Len(gen_log) => gen_log[i + 1].ev = "attempt")

\* the messages that reach the fourth retrieval rule
C17_Reaching ==
    {m \in Messages :
        /\ parse_bulk_entries(m) = <<>>
        /\ ~ShoppingRule(Text(m)) /\ ~ReminderRule(Text(m)) /\ ~NoteRule(Text(m))}

\* the messages that hold a word of the rule's first list and an
\* interrogative word
C17_Stated ==
    {m \in Messages :
        /\ ContainsAny(Lower(m), {"remind", "appointment", "meeting", "schedule", "event"})
        /\ ContainsWord(Lower(m), {"do", "does", "did", "any", "what", "show", "list",
                                   "display", "have", "are there"})}

\* C17 as stated: a message that reached the fourth retrieval rule is
\* answered by it, with the query for 'reminder' and without a call of the
\* model, exactly when it holds a schedule/appointment/meeting word and an
\* interrogative word.
C17_AsStated ==
    (prompt \in C17_Reaching /\ Len(trace) >= 2) =>
        /\ trace[2].hit <=> prompt \in C17_Stated
        /\ (Returned /\ prompt \in C17_Stated =>
              /\ Len(qlog) = 1
              /\ qlog[1].category = "reminder"
              /\ reply = qlog[1].result.result
              /\ sent = <<>>)

\* the messages that hold a context keyword
C18_Keyworded ==
    {m \in Messages :
        \E k \in {"what", "list", "show", "remind", "buy", "task", "to-do", "remember",
                  "summary", "note"} : Contains(Lower(m), k)}

\* the positions of the min(10, n) youngest of n entries
C18_Recent(n) == {k \in 1..n : k > n - 10}

\* C18: the first call of a pass carries a context block exactly when the
\* message holds a context keyword and the store is not empty at the call;
\* the block renders the min(10, n) youngest of the n entries, oldest first;
\* the second call carries function calls and function responses only.
C18_ContextBlock ==
    sent /= <<>> =>
        /\ IF prompt \in C18_Keyworded /\ store0 /= <<>>
           THEN /\ Len(sent[1]) = 2
                /\ sent[1][1] = "Here are recent journal entries:\n"
                                \o C8_Render(store0, C18_Recent(Len(store0)), 1)
                /\ sent[1][2] = prompt
           ELSE sent[1] = <<prompt>>
        /\ (Len(sent) = 2 =>
              \A i \in 1..Len(sent[2]) :
                  /\ DOMAIN sent[2][i] \in {{"part", "name", "args"}, {"part", "name", "response"}}
                  /\ sent[2][i].part \in {"function_call", "function_response"})

\* the first call carried the 10 youngest of 12 entries and the second call
\* followed
C18_Witness ==
    /\ Len(sent) = 2
    /\ Len(store0) = 12
    /\ Len(sent[1]) = 2
    /\ sent[1][1] = "Here are recent journal entries:\n"
                    \o C8_Render(store0, 3..12, 1)
    /\ prompt = "add milk to shopping list"

\* list a is the head of list b
IsPrefix(a, b) == Len(a) <= Len(b) /\ \A k \in 1..Len(a) : b[k] = a[k]

\* C19: message processing only appends: at every point of a pass, on
\* every path and when it returns its reply or an error, the store the
\* pass found is the head of the store; no step of the script but the
\* clear of line 281 removes, moves or changes an entry.
C19_AppendOnly ==
    /\ [](InPass \/ Returned => IsPrefix(store0, journal_entries))
    /\ [][\/ IsPrefix(journal_entries, journal_entries')
          \/ pc = "clear_entries" /\ journal_entries' = <<>>]_vars
    /\ [][InPass \/ Returned => IsPrefix(journal_entries, journal_entries')]_vars

\* a pass that found entries appended one and then ended in an error
C19_Witness ==
    /\ Returned
    /\ store0 /= <<>>
    /\ Len(journal_entries) = Len(store0) + 1
    /\ SubSeq(reply, 1, 7) = "Error: "
    /\ IsPrefix(store0, journal_entries)

\* the most attempts a pass can make: two safe_generate calls of Retries each
C20_MaxTries == 2 * Retries

\* C20: when every attempt answers or fails, every pass returns a reply,
\* after at most two safe_generate calls of at most 3 attempts each, 6
\* attempts in all; the function calls of the second response are not
\* dispatched and start no third call.
C20_PassTerminates ==
    /\ InPass ~> Returned
    /\ [](/\ tries <= C20_MaxTries
          /\ Attempts <= 3
          /\ round <= 2
          /\ Len(sent) <= 2
          /\ (round = 2 => pc \in {"generate", "return"})
          /\ (round = 2 /\ Returned /\ Last(gen_log).ev = "return" => reply = response.text))
    /\ [][round = 2 /\ ~Returned =>
            UNCHANGED <<journal_entries, results, function_calls, sent, qlog, round>>]_vars

\* a pass returned after 6 attempts, with a second response whose function
\* call was not dispatched
C20_Witness ==
    /\ Returned
    /\ tries = 6
    /\ round = 2
    /\ response = [text |-> "", calls |-> <<ToolCalls.add>>]
    /\ reply = ""
    /\ Len(results) = 2
    /\ results[1].response = UnknownFunction
    /\ journal_entries = store0

=============================================================================
